---- MODULE Spec2Model ----
(***************************************************************************)
(* The Research Tools server (src/01_research_server/server.py): the       *)
(* per-topic paper cache under PAPER_DIR and the four tool handlers, and   *)
(* the CSV/JSON converters of the Data Tools server                        *)
(* (src/03_data_server/server.py).                                         *)
(*                                                                         *)
(* Strings whose characters matter (topics, author names, publication     *)
(* dates) are sequences of one-character strings.  Strings that are only   *)
(* stored and compared (identifiers, titles, links) are TLA+ strings.      *)
(***************************************************************************)
EXTENDS Integers, Sequences, FiniteSets, TLC

VARIABLES
  dirs,        \* the directories that exist under PAPER_DIR, as component paths
  files,       \* path |-> content of <path>/papers_info.json
  response,    \* what the last handled request answered
  last,        \* history: paper id |-> the last completed search that returned it
  nSearches,   \* history: number of search_papers requests handled
  req,         \* per server process: the search_papers request it is executing
  events,      \* history: the processes' reads and writes of cache files, in order
  csv_data,    \* csv_to_json's input, as csv.reader parses it
  json_data,   \* csv_to_json's output
  csv_result,  \* json_to_csv's output
  tool_call,   \* a call of a tool of the data, web or document server: its arguments
  tool_result  \* what that call returned

vars == <<dirs, files, response, last, nSearches, req, events,
          csv_data, json_data, csv_result, tool_call, tool_result>>

----------------------------------------------------------------------------
(* Bounds of the model *)

MaxSearches == 2

MaxAuthors == 3

MaxRows == 3

(* Program constants *)

SearchCap == 20

AuthorSearchCap == 15

----------------------------------------------------------------------------
(* Sequence helpers *)

Min(a, b) == IF a <= b THEN a ELSE b

Range(s) == {s[i] : i \in 1..Len(s)}

IsPrefixAt(s, sep, i) ==
  /\ i + Len(sep) - 1 <= Len(s)
  /\ \A j \in 1..Len(sep) : s[i + j - 1] = sep[j]

Contains(s, sep) == \E i \in 1..Len(s) : IsPrefixAt(s, sep, i)

EndsWith(s, suf) ==
  /\ Len(suf) <= Len(s)
  /\ \A j \in 1..Len(suf) : s[Len(s) - Len(suf) + j] = suf[j]

Injective(s) == \A i, j \in 1..Len(s) : s[i] = s[j] => i = j

Orders(S) == {s \in [1..Cardinality(S) -> S] : Injective(s)}

SeqsUpTo(S, n) == UNION {[1..k -> S] : k \in 0..n}

----------------------------------------------------------------------------
(* Topics and paths *)

TopicStrings ==
  { <<"A", " ">>, <<"a", "_">>, <<"b">>, <<"b", "/", "A">> }

\* Topics that name the directory of another topic in a second way.
AliasTopics == { <<"b", "/">> }

LowerChar(c) ==
  CASE c = "A" -> "a"
    [] c = "B" -> "b"
    [] OTHER -> c

\* request.topic.lower().replace(" ", "_")
Normalize(topic) ==
  [i \in 1..Len(topic) |->
     IF LowerChar(topic[i]) = " " THEN "_" ELSE LowerChar(topic[i])]

\* The components of a relative path: the non-empty runs between "/".
RECURSIVE PathComponents(_, _)
PathComponents(s, cur) ==
  IF s = <<>> THEN (IF cur = <<>> THEN <<>> ELSE <<cur>>)
  ELSE IF Head(s) = "/"
       THEN (IF cur = <<>> THEN <<>> ELSE <<cur>>) \o PathComponents(Tail(s), <<>>)
       ELSE PathComponents(Tail(s), Append(cur, Head(s)))

\* os.path.join(PAPER_DIR, <normalized topic>), relative to PAPER_DIR
TopicPath(topic) == PathComponents(Normalize(topic), <<>>)

\* os.makedirs(path, exist_ok=True) creates the path and every ancestor
PathPrefixes(path) == {SubSeq(path, 1, k) : k \in 1..Len(path)}

AllPaths == UNION {PathPrefixes(TopicPath(t)) : t \in TopicStrings}

\* os.listdir(PAPER_DIR) filtered by os.path.isdir
TopLevelDirs(ds) == {d \in ds : Len(d) = 1}

----------------------------------------------------------------------------
(* Paper records and cache file contents *)

Ids == {"P1", "P2"}

Date2021 == <<"2", "0", "2", "1", "-", "0", "3", "-", "0", "4">>

Date2023 == <<"2", "0", "2", "3", "-", "1", "1", "-", "3", "0">>

PaperRecord(title, authors, published) ==
  [title |-> title, authors |-> authors, summary |-> "summary",
   pdf_url |-> "pdf", published |-> published, categories |-> <<"cs.AI">>]

RecOld == PaperRecord("old title", << <<"x">> >>, Date2021)

RecNew == PaperRecord("new title", << <<"x">>, <<"y">> >>, Date2023)

Records == {RecOld, RecNew}

NoFile == [kind |-> "none"]

Unparsable == [kind |-> "text"]

JsonNumber == [kind |-> "number"]

JsonArray(items) == [kind |-> "array", items |-> items]

JsonObject(m) == [kind |-> "object", map |-> m]

EmptyDict == [p \in {} |-> RecOld]

\* papers_info[paper_id] = {...} on a dict
DictSet(m, k, v) == [x \in DOMAIN m \cup {k} |-> IF x = k THEN v ELSE m[x]]

----------------------------------------------------------------------------
(* The external index (arXiv): what one query yields *)

Paper(id, rec) == [id |-> id, rec |-> rec]

\* The papers the index may hold: P1's entry changes over time, P2's does not.
IndexPapers == {Paper("P1", RecOld), Paper("P1", RecNew), Paper("P2", RecOld)}

\* A ranked result list: papers with pairwise distinct identifiers.
IndexResults ==
  {s \in SeqsUpTo(IndexPapers, Cardinality(Ids)) :
     \A i, j \in 1..Len(s) : s[i].id = s[j].id => i = j}

MaxResultsInputs == {1, 25}

----------------------------------------------------------------------------
(* search_papers *)

\* max_results = min(request.max_results, 20)
SearchLimit(max_results) == Min(max_results, SearchCap)

\* Mutant: the cache file is never read back.
LoadCacheFresh(content) == JsonObject(EmptyDict)

\* try: json.load(f)  except (FileNotFoundError, json.JSONDecodeError): {}
LoadCache(content) ==
  IF content.kind \in {"none", "text"} THEN JsonObject(EmptyDict) ELSE content

\* Mutant: the identifiers are collected but the records are not stored.
StorePapersIdsOnly(papers_info, papers) ==
  [raised |-> FALSE, papers_info |-> papers_info,
   paper_ids |-> [i \in 1..Len(papers) |-> papers[i].id]]

\* The loop over the results: paper_ids.append(...); papers_info[paper_id] = {...}.
\* Item assignment on a loaded value that is not a dict raises TypeError.
RECURSIVE StorePapers(_, _)
StorePapers(papers_info, papers) ==
  IF papers = <<>>
  THEN [raised |-> FALSE, papers_info |-> papers_info, paper_ids |-> <<>>]
  ELSE IF papers_info.kind # "object"
       THEN [raised |-> TRUE, papers_info |-> papers_info, paper_ids |-> <<>>]
       ELSE LET p == Head(papers)
                rest == StorePapers(
                          JsonObject(DictSet(papers_info.map, p.id, p.rec)),
                          Tail(papers))
            IN [rest EXCEPT !.paper_ids = <<p.id>> \o @]

\* Mutant: the dump merges into what the file holds at the time of the write.
DumpCacheMerging(fs, path, papers_info) ==
  [fs EXCEPT ![path] =
     IF @.kind = "object" /\ papers_info.kind = "object"
     THEN JsonObject([p \in DOMAIN @.map \cup DOMAIN papers_info.map |->
                        IF p \in DOMAIN papers_info.map
                        THEN papers_info.map[p] ELSE @.map[p]])
     ELSE papers_info]

\* with open(file_path, "w") as f: json.dump(papers_info, f, indent=2)
DumpCache(fs, path, papers_info) == [fs EXCEPT ![path] = papers_info]

NoSearch == [found |-> FALSE, path |-> <<>>]

RecordLast(l, path, papers) ==
  [p \in Ids |->
     IF \E i \in 1..Len(papers) : papers[i].id = p
     THEN [found |-> TRUE, path |-> path,
           rec |-> (CHOOSE r \in Records :
                      \E i \in 1..Len(papers) : papers[i] = Paper(p, r))]
     ELSE l[p]]

SearchResponse(status, topic, max_results, papers, ids) ==
  [op |-> "search_papers", status |-> status, topic |-> topic,
   path |-> TopicPath(topic), max_results |-> max_results,
   limit |-> SearchLimit(max_results), yielded |-> papers, paper_ids |-> ids]

\* Mutant: the cache file is written although the index raised.
SearchPapersDumpingPartial ==
  /\ nSearches < MaxSearches
  /\ \E topic \in TopicStrings, max_results \in MaxResultsInputs,
        papers \in IndexResults, index_fails \in BOOLEAN :
       LET limit == SearchLimit(max_results)
           path == TopicPath(topic)
           run == StorePapers(LoadCache(files[path]), papers)
       IN /\ Len(papers) <= limit
          /\ dirs' = dirs \cup PathPrefixes(path)
          /\ IF run.raised
             THEN /\ files' = files
                  /\ last' = last
                  /\ response' = SearchResponse("cache_error", topic,
                                                max_results, <<>>, <<>>)
             ELSE IF index_fails
             THEN /\ files' = DumpCache(files, path, run.papers_info)
                  /\ last' = last
                  /\ response' = SearchResponse("index_error", topic,
                                                max_results, <<>>, <<>>)
             ELSE /\ files' = DumpCache(files, path, run.papers_info)
                  /\ last' = RecordLast(last, path, papers)
                  /\ response' = SearchResponse("ok", topic, max_results,
                                                papers, run.paper_ids)
  /\ nSearches' = nSearches + 1
  /\ UNCHANGED <<req, events, csv_data, json_data, csv_result,
               tool_call, tool_result>>

\* One whole search_papers request.  index_fails: the index raises after
\* yielding `papers` (the results are fetched lazily, inside the loop).
SearchPapersOf(topics) ==
  /\ nSearches < MaxSearches
  /\ \E topic \in topics, max_results \in MaxResultsInputs,
        papers \in IndexResults, index_fails \in BOOLEAN :
       LET limit == SearchLimit(max_results)
           path == TopicPath(topic)
           run == StorePapers(LoadCache(files[path]), papers)
       IN /\ Len(papers) <= limit
          /\ dirs' = dirs \cup PathPrefixes(path)
          /\ IF run.raised
             THEN /\ files' = files
                  /\ last' = last
                  /\ response' = SearchResponse("cache_error", topic,
                                                max_results, <<>>, <<>>)
             ELSE IF index_fails
             THEN /\ files' = files
                  /\ last' = last
                  /\ response' = SearchResponse("index_error", topic,
                                                max_results, <<>>, <<>>)
             ELSE /\ files' = DumpCache(files, path, run.papers_info)
                  /\ last' = RecordLast(last, path, papers)
                  /\ response' = SearchResponse("ok", topic, max_results,
                                                papers, run.paper_ids)
  /\ nSearches' = nSearches + 1
  /\ UNCHANGED <<req, events, csv_data, json_data, csv_result,
               tool_call, tool_result>>

SearchPapers == SearchPapersOf(TopicStrings)

----------------------------------------------------------------------------
(* extract_paper_info *)

\* The scan of lines 99-110 over the directory listing `order`.  Only
\* FileNotFoundError and JSONDecodeError are caught: a loaded value that is
\* not a dict raises TypeError from `in` (a number) or from the indexing
\* (a list that holds the identifier).
RECURSIVE ExtractScan(_, _, _)
ExtractScan(order, fs, paper_id) ==
  IF order = <<>> THEN [status |-> "not_found"]
  ELSE LET c == fs[Head(order)]
           next == ExtractScan(Tail(order), fs, paper_id)
       IN CASE c.kind = "none" -> next
            [] c.kind = "text" -> next
            [] c.kind = "object" ->
                 IF paper_id \in DOMAIN c.map
                 THEN [status |-> "ok", record |-> c.map[paper_id]]
                 ELSE next
            [] c.kind = "array" ->
                 IF paper_id \in Range(c.items)
                 THEN [status |-> "cache_error"]
                 ELSE next
            [] c.kind = "number" -> [status |-> "cache_error"]

ExtractPaperInfo ==
  /\ \E paper_id \in Ids, order \in Orders(TopLevelDirs(dirs)) :
       LET found == ExtractScan(order, files, paper_id)
       IN response' = [op |-> "extract_paper_info", paper_id |-> paper_id,
                       status |-> found.status,
                       record |-> IF found.status = "ok" THEN found.record
                                  ELSE NoFile]
  /\ UNCHANGED <<dirs, files, last, nSearches, req, events,
                 csv_data, json_data, csv_result, tool_call, tool_result>>

----------------------------------------------------------------------------
(* search_papers_by_author *)

AuthorNames == {<<"x">>, <<"b">>}

\* What an author query yields: the author's papers, by submission date.
AuthorIndexResults ==
  {s \in IndexResults : \A i \in 1..Len(s) : <<"x">> \in Range(s[i].rec.authors)
                                               /\ s[i].id = "P1"}

\* max_results = min(request.max_results, 15)
AuthorSearchLimit(max_results) == Min(max_results, AuthorSearchCap)

AuthorResult(paper) ==
  [paper_id |-> paper.id, title |-> paper.rec.title,
   published |-> paper.rec.published, authors |-> paper.rec.authors]

\* Mutant: the author search caches what it found, as search_papers does.
SearchPapersByAuthorCaching ==
  /\ \E author_name \in AuthorNames, papers \in AuthorIndexResults :
       LET path == << author_name >>
           run == StorePapers(LoadCache(files[path]), papers)
       IN /\ path \in AllPaths
          /\ ~run.raised
          /\ dirs' = dirs \cup {path}
          /\ files' = DumpCache(files, path, run.papers_info)
          /\ response' =
               [op |-> "search_papers_by_author", status |-> "ok",
                limit |-> AuthorSearchCap,
                results |-> [i \in 1..Len(papers) |-> AuthorResult(papers[i])]]
  /\ UNCHANGED <<last, nSearches, req, events, csv_data, json_data, csv_result,
               tool_call, tool_result>>

SearchPapersByAuthor ==
  /\ \E author_name \in AuthorNames, max_results \in MaxResultsInputs,
        papers \in AuthorIndexResults, index_fails \in BOOLEAN :
       /\ Len(papers) <= AuthorSearchLimit(max_results)
       /\ response' =
            [op |-> "search_papers_by_author",
             status |-> IF index_fails THEN "index_error" ELSE "ok",
             limit |-> AuthorSearchLimit(max_results),
             results |-> IF index_fails THEN <<>>
                         ELSE [i \in 1..Len(papers) |-> AuthorResult(papers[i])]]
  /\ UNCHANGED <<dirs, files, last, nSearches, req, events,
                 csv_data, json_data, csv_result, tool_call, tool_result>>

----------------------------------------------------------------------------
(* get_paper_citation *)

Formats == {"bibtex", "apa", "simple", "mla"}

AndSep == <<" ", "a", "n", "d", " ">>

AmpSep == <<" ", "&", " ">>

EtAl == <<" ", "e", "t", " ", "a", "l", ".">>

Unknown == <<"U", "n", "k", "n", "o", "w", "n">>

\* sep.join(parts)
RECURSIVE Join(_, _)
Join(parts, sep) ==
  IF parts = <<>> THEN <<>>
  ELSE IF Len(parts) = 1 THEN parts[1]
  ELSE parts[1] \o sep \o Join(Tail(parts), sep)

\* s.split(sep): the pieces between the non-overlapping occurrences of sep,
\* found left to right; always at least one piece.
RECURSIVE Split(_, _, _)
Split(s, sep, cur) ==
  IF s = <<>> THEN <<cur>>
  ELSE IF IsPrefixAt(s, sep, 1)
       THEN <<cur>> \o Split(SubSeq(s, Len(sep) + 1, Len(s)), sep, <<>>)
       ELSE Split(Tail(s), sep, Append(cur, Head(s)))

\* paper_info['published'].split('-')[0]
YearOf(published) == Split(published, <<"-">>, <<>>)[1]

\* The scan of lines 148-160: as extract_paper_info's, but a bare `except`
\* skips a file on every exception.
RECURSIVE CitationScan(_, _, _)
CitationScan(order, fs, paper_id) ==
  IF order = <<>> THEN [status |-> "not_found"]
  ELSE LET c == fs[Head(order)]
       IN IF c.kind = "object" /\ paper_id \in DOMAIN c.map
          THEN [status |-> "ok", record |-> c.map[paper_id]]
          ELSE CitationScan(Tail(order), fs, paper_id)

\* Mutant: the authors are joined with a comma.
BibtexAuthorStrComma(authors) == Join(authors, <<",", " ">>)

\* author_str = " and ".join(authors)
BibtexAuthorStr(authors) == Join(authors, AndSep)

\* The APA branch; authors[0] on an empty list raises IndexError.
ApaAuthorStr(authors) ==
  IF Len(authors) = 1 THEN [raised |-> FALSE, str |-> authors[1]]
  ELSE IF Len(authors) = 2
       THEN [raised |-> FALSE, str |-> authors[1] \o AmpSep \o authors[2]]
       ELSE IF Len(authors) = 0
            THEN [raised |-> TRUE, str |-> <<>>]
            ELSE [raised |-> FALSE, str |-> authors[1] \o EtAl]

\* author_str = authors[0] if authors else "Unknown"
SimpleAuthorStr(authors) == IF authors # <<>> THEN authors[1] ELSE Unknown

\* Lines 165-192: the citation's variable parts.  The template text between
\* them is fixed per format and left out.
RenderCitation(paper_id, format, paper_info) ==
  LET authors == paper_info.authors
      year == YearOf(paper_info.published)
      author ==
        IF format = "bibtex"
        THEN [raised |-> FALSE, str |-> BibtexAuthorStr(authors)]
        ELSE IF format = "apa" THEN ApaAuthorStr(authors)
        ELSE [raised |-> FALSE, str |-> SimpleAuthorStr(authors)]
  IN [op |-> "get_paper_citation", paper_id |-> paper_id, format |-> format,
      status |-> IF author.raised THEN "render_error" ELSE "ok",
      record |-> paper_info,
      author_str |-> author.str, year |-> year,
      title |-> paper_info.title,
      url |-> IF format = "bibtex" THEN paper_info.pdf_url ELSE ""]

GetPaperCitation ==
  /\ \E paper_id \in Ids, format \in Formats,
        order \in Orders(TopLevelDirs(dirs)) :
       LET found == CitationScan(order, files, paper_id)
       IN response' =
            IF found.status = "ok"
            THEN RenderCitation(paper_id, format, found.record)
            ELSE [op |-> "get_paper_citation", paper_id |-> paper_id,
                  format |-> format, status |-> "not_found", record |-> NoFile,
                  author_str |-> <<>>, year |-> <<>>, title |-> "", url |-> ""]
  /\ UNCHANGED <<dirs, files, last, nSearches, req, events,
                 csv_data, json_data, csv_result, tool_call, tool_result>>

----------------------------------------------------------------------------
(* The server handling one request after another *)

NoResponse == [op |-> "none", status |-> "none"]

\* No tool of the other servers has been called.
NoCall == [tool |-> "none"]

\* What the server may find under PAPER_DIR when it starts.
StartContents ==
  { NoFile, Unparsable, JsonNumber, JsonArray(<<"P1">>),
    JsonObject([p \in {"P1"} |-> RecOld]) }

Idle ==
  /\ req = [w \in {} |-> 0]
  /\ events = <<>>
  /\ csv_data = <<>>
  /\ json_data = NoResponse
  /\ csv_result = NoResponse
  /\ tool_call = NoCall
  /\ tool_result = NoResponse

Init ==
  /\ \E topic \in TopLevelDirs(AllPaths), start \in StartContents :
       /\ files = [p \in AllPaths |-> IF p = topic THEN start ELSE NoFile]
       /\ dirs = IF start = NoFile THEN {} ELSE {topic}
  /\ response = NoResponse
  /\ last = [p \in Ids |-> NoSearch]
  /\ nSearches = 0
  /\ Idle

Next ==
  \/ SearchPapers
  \/ ExtractPaperInfo
  \/ SearchPapersByAuthor
  \/ GetPaperCitation

Spec == Init /\ [][Next]_vars

----------------------------------------------------------------------------
(* Properties of the server handling one request after another *)

SearchStep == nSearches' = nSearches + 1

Cached(fs, path, paper_id) ==
  fs[path].kind = "object" /\ paper_id \in DOMAIN fs[path].map

WellFormed(content) == content.kind \in {"none", "object"}

\* C1: a search_papers request that completes without error on a topic whose
\* cache file is absent or well-formed (as it is after an earlier completed
\* search) keeps every identifier the file held, and keeps its record unless
\* the search returned that identifier.
C1_SearchKeepsCachedPapers ==
  [][(SearchStep /\ response'.status = "ok" /\ WellFormed(files[response'.path]))
       => LET path == response'.path
          IN /\ files'[path].kind = "object"
             /\ \A p \in Ids :
                  Cached(files, path, p)
                    => /\ Cached(files', path, p)
                       /\ p \notin Range(response'.paper_ids)
                            => files'[path].map[p] = files[path].map[p]]_vars

\* A second completed search of a topic kept, unchanged, a paper that an
\* earlier completed search of that topic had cached and it did not return.
C1_Witness ==
  /\ response.op = "search_papers" /\ response.status = "ok"
  /\ response.paper_ids # <<>>
  /\ \E p \in Ids :
       /\ last[p].found /\ last[p].path = response.path
       /\ p \notin Range(response.paper_ids)
       /\ Cached(files, response.path, p)
       /\ files[response.path].map[p] = last[p].rec

\* C2: after any searches, extract_paper_info(P) returns exactly the record
\* that the most recent completed search returning P wrote (here: whenever
\* every cache file is absent or well-formed).
C2_LookupReturnsLastWritten ==
  (/\ response.op = "extract_paper_info"
   /\ last[response.paper_id].found
   /\ \A path \in AllPaths : WellFormed(files[path]))
    => /\ response.status = "ok"
       /\ response.record = last[response.paper_id].rec

\* C4: search_papers asks the index for at most 20 results, returns the
\* identifiers of exactly the papers the index yielded, in rank order, and
\* on return each of them is a key of the topic's cache file.
C4_SearchReturnsCachedIds ==
  response.op = "search_papers"
    => /\ response.limit <= 20
       /\ response.status = "ok"
            => /\ response.paper_ids =
                    [i \in 1..Len(response.yielded) |-> response.yielded[i].id]
               /\ \A i \in 1..Len(response.yielded) :
                    /\ Cached(files, TopicPath(response.topic), response.yielded[i].id)
                    /\ files[TopicPath(response.topic)].map[response.yielded[i].id]
                         = response.yielded[i].rec

\* A search asked for more than the cap and returned two identifiers.
C4_Witness ==
  /\ response.op = "search_papers" /\ response.status = "ok"
  /\ response.max_results > 20
  /\ Len(response.paper_ids) = 2

\* C5: search_papers_by_author leaves the directories and every cache file
\* as they were, whether the index answers or fails.
C5_AuthorSearchWritesNothing ==
  [][response'.op = "search_papers_by_author"
       => dirs' = dirs /\ files' = files]_vars

\* An author search returned results while a cache existed.
C5_Witness ==
  /\ response.op = "search_papers_by_author" /\ response.status = "ok"
  /\ response.results # <<>>
  /\ \E path \in dirs : files[path].kind = "object"

Malformed(content) == content.kind \in {"text", "number", "array"}

\* C6: a cache file that is not a well-formed mapping (unparsable text, or
\* JSON that is not an object) is treated as absent: search_papers completes
\* as if the cache were empty, and extract_paper_info and get_paper_citation
\* never fail because of the file.
C6_MalformedCacheIsAbsent ==
  [][/\ (SearchStep /\ Malformed(files[response'.path]))
          => /\ response'.status # "cache_error"
             /\ response'.status = "ok"
                  => files'[response'.path] =
                       StorePapers(JsonObject(EmptyDict), response'.yielded).papers_info
     /\ response'.op \in {"extract_paper_info", "get_paper_citation"}
          => response'.status # "cache_error"]_vars

\* C7: extract_paper_info and get_paper_citation signal not-found exactly
\* when no topic's cache file holds the identifier (here: whenever every
\* cache file is absent or well-formed), and return nothing for an
\* identifier that no cache holds.
C7_NotFoundIffUncached ==
  (/\ response.op \in {"extract_paper_info", "get_paper_citation"}
   /\ \A path \in AllPaths : WellFormed(files[path]))
    => LET cached == \E t \in TopicStrings :
                       Cached(files, TopicPath(t), response.paper_id)
       IN /\ response.status = "not_found" <=> ~cached
          /\ response.status = "ok" => cached

----------------------------------------------------------------------------
(* Two server processes over one PAPER_DIR.                                *)
(*                                                                         *)
(* search_papers is an `async def` with no `await` in its body, so one     *)
(* server process runs a request to completion before it takes the next.   *)
(* Nothing in the handler locks the cache file, so the file system calls   *)
(* of two server processes that share the papers directory interleave.     *)

Procs == {"w1", "w2"}

NoRequest ==
  [pc |-> "idle", topic |-> <<>>, path |-> <<>>, limit |-> 0,
   papers_info |-> NoFile, paper_ids |-> <<>>]

Event(proc, kind) == [proc |-> proc, kind |-> kind]

\* What the search steps leave alone.
OthersUnchanged ==
  UNCHANGED <<response, last, nSearches, csv_data, json_data, csv_result,
              tool_call, tool_result>>

\* Lines 53-66: the request arrives; os.makedirs(path, exist_ok=True).
StartSearch(w) ==
  /\ req[w].pc = "idle"
  /\ \E topic \in TopicStrings, max_results \in MaxResultsInputs :
       /\ req' = [req EXCEPT ![w] = [NoRequest EXCEPT
                    !.pc = "started", !.topic = topic,
                    !.path = TopicPath(topic),
                    !.limit = SearchLimit(max_results)]]
       /\ dirs' = dirs \cup PathPrefixes(TopicPath(topic))
  /\ UNCHANGED <<files, events>>
  /\ OthersUnchanged

\* Lines 69-73: the cache file is read into papers_info.
ReadCache(w) ==
  /\ req[w].pc = "started"
  /\ req' = [req EXCEPT ![w].pc = "read",
                        ![w].papers_info = LoadCache(files[req[w].path])]
  /\ events' = Append(events, Event(w, "read"))
  /\ UNCHANGED <<dirs, files>>
  /\ OthersUnchanged

\* Lines 75-86: the loop pulls the results from the index and fills
\* papers_info; an error of the index ends the request.
FetchPapers(w) ==
  /\ req[w].pc = "read"
  /\ \E papers \in IndexResults, index_fails \in BOOLEAN :
       LET run == StorePapers(req[w].papers_info, papers)
       IN /\ Len(papers) <= req[w].limit
          /\ req' = IF run.raised \/ index_fails
                    THEN [req EXCEPT ![w].pc = "failed"]
                    ELSE [req EXCEPT ![w].pc = "fetched",
                                     ![w].papers_info = run.papers_info,
                                     ![w].paper_ids = run.paper_ids]
  /\ UNCHANGED <<dirs, files, events>>
  /\ OthersUnchanged

\* open(file_path, "w") empties the file before anything is written to it.
TruncateCache(fs, path) == [fs EXCEPT ![path] = Unparsable]

\* Line 88: the file is opened for writing.
OpenCache(w) ==
  /\ req[w].pc = "fetched"
  /\ req' = [req EXCEPT ![w].pc = "opened"]
  /\ files' = TruncateCache(files, req[w].path)
  /\ UNCHANGED <<dirs, events>>
  /\ OthersUnchanged

\* Lines 89-91: json.dump, the file is closed, the identifiers are returned.
WriteCache(w) ==
  /\ req[w].pc = "opened"
  /\ req' = [req EXCEPT ![w].pc = "done"]
  /\ files' = DumpCache(files, req[w].path, req[w].papers_info)
  /\ events' = Append(events, Event(w, "write"))
  /\ UNCHANGED dirs
  /\ OthersUnchanged

ConcInit ==
  /\ dirs = {}
  /\ files = [p \in AllPaths |-> NoFile]
  /\ req = [w \in Procs |-> NoRequest]
  /\ events = <<>>
  /\ response = NoResponse
  /\ last = [p \in Ids |-> NoSearch]
  /\ nSearches = 0
  /\ csv_data = <<>>
  /\ json_data = NoResponse
  /\ csv_result = NoResponse
  /\ tool_call = NoCall
  /\ tool_result = NoResponse

ConcNext ==
  \/ \E w \in Procs : StartSearch(w)
  \/ \E w \in Procs : ReadCache(w)
  \/ \E w \in Procs : FetchPapers(w)
  \/ \E w \in Procs : OpenCache(w)
  \/ \E w \in Procs : WriteCache(w)

ConcSpec == ConcInit /\ [][ConcNext]_vars

EventsOf(w, kind) == {k \in 1..Len(events) : events[k] = Event(w, kind)}

LastWrite(path) ==
  LET ks == {k \in 1..Len(events) :
               events[k].kind = "write" /\ req[events[k].proc].path = path}
  IN CHOOSE k \in ks : \A j \in ks : j <= k

\* C3: searches of one topic are not serialized, and the last writer wins:
\* once a topic's file has been written and no request has it open, it holds
\* exactly the mapping of the request that wrote last (what that request
\* read, plus its own results), whatever was written in between.
C3_LastWriterWins ==
  \A path \in AllPaths :
    (/\ \E w \in Procs : req[w].pc = "done" /\ req[w].path = path
     /\ \A w \in Procs : ~(req[w].pc = "opened" /\ req[w].path = path))
      => files[path] = req[events[LastWrite(path)].proc].papers_info

\* Two completed requests on one topic file; the read of one fell between
\* the read and the write of the other, and the file lacks a record that one
\* of them wrote.
C3_Witness ==
  \E v, w \in Procs :
    /\ v # w
    /\ req[v].pc = "done" /\ req[w].pc = "done"
    /\ req[v].path = req[w].path
    /\ \E rv \in EventsOf(v, "read"), rw \in EventsOf(w, "read"),
          wv \in EventsOf(v, "write") : rv < rw /\ rw < wv
    /\ \E p \in Range(req[v].paper_ids) \cup Range(req[w].paper_ids) :
         ~Cached(files, req[v].path, p)

----------------------------------------------------------------------------
(* Citations of one cached paper, over every author list *)

CiteAuthorNames ==
  { <<"x">>, <<"y", " ", "a", "n", "d">>, <<"a", "n", "d", " ", "z">>,
    <<"x", " ", "a", "n", "d", " ", "y">> }

CiteDates == {Date2021, <<"2", "0", "2", "1">>}

CiteTopic == << <<"b">> >>

CiteInit ==
  /\ \E authors \in SeqsUpTo(CiteAuthorNames, MaxAuthors), published \in CiteDates :
       files = [p \in AllPaths |->
                  IF p = CiteTopic
                  THEN JsonObject([id \in {"P1"} |->
                                     PaperRecord("title", authors, published)])
                  ELSE NoFile]
  /\ dirs = {CiteTopic}
  /\ response = NoResponse
  /\ last = [p \in Ids |-> NoSearch]
  /\ nSearches = 0
  /\ Idle

CiteNext ==
  \/ GetPaperCitation
  \/ ExtractPaperInfo

CiteSpec == CiteInit /\ [][CiteNext]_vars

\* The part of s before its first "-" (all of s when it has none).
BeforeFirstDash(s) ==
  LET dashes == {i \in 1..Len(s) : s[i] = "-"}
  IN IF dashes = {} THEN s
     ELSE SubSeq(s, 1, (CHOOSE i \in dashes : \A j \in dashes : i <= j) - 1)

\* C8: for every cached record and author list, the empty one included,
\* get_paper_citation returns a citation in each of the formats bibtex, apa
\* and simple; the APA author part is the one author, "A & B", or
\* "<first> et al."; the simple one is the first author or "Unknown"; the
\* year is the publication date up to its first "-".
C8_CitationRendersEveryAuthorList ==
  (/\ response.op = "get_paper_citation"
   /\ response.status # "not_found"
   /\ response.format \in {"bibtex", "apa", "simple"})
    => LET authors == response.record.authors
       IN /\ response.status = "ok"
          /\ response.year = BeforeFirstDash(response.record.published)
          /\ (response.format = "apa" /\ Len(authors) = 1)
               => response.author_str = authors[1]
          /\ (response.format = "apa" /\ Len(authors) = 2)
               => response.author_str =
                    authors[1] \o <<" ", "&", " ">> \o authors[2]
          /\ (response.format = "apa" /\ Len(authors) >= 3)
               => response.author_str =
                    authors[1] \o <<" ", "e", "t", " ", "a", "l", ".">>
          /\ (response.format = "simple" /\ Len(authors) >= 1)
               => response.author_str = authors[1]
          /\ (response.format = "simple" /\ Len(authors) = 0)
               => response.author_str = <<"U", "n", "k", "n", "o", "w", "n">>

BibtexOk ==
  /\ response.op = "get_paper_citation"
  /\ response.status = "ok"
  /\ response.format = "bibtex"

NoAndInside(authors) ==
  \A i \in 1..Len(authors) : ~Contains(authors[i], <<" ", "a", "n", "d", " ">>)

\* C9 as stated: when no author contains " and ", splitting the BibTeX author
\* field on " and " gives back the author list, for lists of every length.
C9_BibtexAuthorsRoundTrip ==
  (BibtexOk /\ NoAndInside(response.record.authors))
    => Split(response.author_str, <<" ", "a", "n", "d", " ">>, <<>>)
         = response.record.authors

NoAndAtEnd(authors) ==
  \A i \in 1..Len(authors) - 1 : ~EndsWith(authors[i], <<" ", "a", "n", "d">>)

\* C9 as amended: the same for non-empty author lists in which, besides, no
\* author but the last ends with " and".
C9_BibtexAuthorsRoundTripNonEmpty ==
  (/\ BibtexOk
   /\ NoAndInside(response.record.authors)
   /\ response.record.authors # <<>>
   /\ NoAndAtEnd(response.record.authors))
    => Split(response.author_str, <<" ", "a", "n", "d", " ">>, <<>>)
         = response.record.authors

\* A BibTeX citation of three authors, the second starting with "and ".
C9_Witness ==
  /\ BibtexOk
  /\ NoAndInside(response.record.authors)
  /\ NoAndAtEnd(response.record.authors)
  /\ Len(response.record.authors) = 3
  /\ response.record.authors[2] = <<"a", "n", "d", " ", "z">>

----------------------------------------------------------------------------
(* csv_to_json and json_to_csv (src/03_data_server/server.py).             *)
(* CSV text is modelled by the rows csv.reader parses it into and          *)
(* csv.DictWriter writes; JSON text by the value it encodes.               *)

CsvStrings == {"", "h", "k"}

CsvWidths == 0..2

CsvRows == UNION {[1..n -> CsvStrings] : n \in CsvWidths}

\* Python's order of the strings that occur as keys.
StrOrder == <<"", "col_0", "col_1", "col_2", "col_3", "h", "k">>

StrRank(str) == CHOOSE i \in 1..Len(StrOrder) : StrOrder[i] = str

\* sorted(keys)
RECURSIVE Sorted(_)
Sorted(keys) ==
  IF keys = {} THEN <<>>
  ELSE LET least == CHOOSE k \in keys : \A j \in keys : StrRank(k) <= StrRank(j)
       IN <<least>> \o Sorted(keys \ {least})

\* "col_" + str(i), for the 0-based index i
ColName(i) == StrOrder[i + 2]

\* Mutant: the bound check is off by one, so a row's last cell is dropped.
RowDictOffByOne(headers, row) ==
  [key \in Range(headers) |->
     LET i == CHOOSE i \in 1..Len(headers) :
                /\ headers[i] = key
                /\ \A j \in 1..Len(headers) : headers[j] = key => j <= i
     IN IF i < Len(row) THEN row[i] ELSE ""]

\* {headers[i]: row[i] if i < len(row) else '' for i in range(len(headers))}:
\* a header that occurs twice keeps the cell of its last position.
RowDict(headers, row) ==
  [key \in Range(headers) |->
     LET i == CHOOSE i \in 1..Len(headers) :
                /\ headers[i] = key
                /\ \A j \in 1..Len(headers) : headers[j] = key => j <= i
     IN IF i <= Len(row) THEN row[i] ELSE ""]

\* {"col_" + str(i): val for i, val in enumerate(row)}
ColDict(row) ==
  [key \in {ColName(i - 1) : i \in 1..Len(row)} |->
     row[CHOOSE i \in 1..Len(row) : ColName(i - 1) = key]]

\* csv_to_json, lines 121-138
CsvToJsonValue(rows, has_header) ==
  IF rows = <<>> THEN [kind |-> "object", error |-> "No data provided"]
  ELSE IF has_header
       THEN [kind |-> "array",
             items |-> [r \in 1..Len(rows) - 1 |-> RowDict(rows[1], rows[r + 1])]]
       ELSE [kind |-> "array",
             items |-> [r \in 1..Len(rows) |-> ColDict(rows[r])]]

\* writer.writerows(data): a key a row lacks is written as an empty cell
DictRow(keys, item) ==
  [i \in 1..Len(keys) |-> IF keys[i] \in DOMAIN item THEN item[keys[i]] ELSE ""]

\* json_to_csv, lines 157-177
JsonToCsvValue(data) ==
  IF data.kind # "array" \/ data.items = <<>>
  THEN [kind |-> "error",
        text |-> "Error: JSON must be a non-empty array of objects"]
  ELSE LET keys == Sorted(UNION {DOMAIN data.items[i] : i \in 1..Len(data.items)})
       IN [kind |-> "csv",
           rows |-> <<keys>> \o [i \in 1..Len(data.items) |->
                                   DictRow(keys, data.items[i])]]

CsvToJson ==
  /\ \E has_header \in BOOLEAN :
       json_data' = [op |-> "csv_to_json", has_header |-> has_header,
                     value |-> CsvToJsonValue(csv_data, has_header)]
  /\ UNCHANGED <<csv_data, csv_result, dirs, files, response, last,
                 nSearches, req, events, tool_call, tool_result>>

JsonToCsv ==
  /\ json_data.op = "csv_to_json"
  /\ csv_result' = [op |-> "json_to_csv", json |-> json_data,
                    out |-> JsonToCsvValue(json_data.value)]
  /\ UNCHANGED <<csv_data, json_data, dirs, files, response, last,
                 nSearches, req, events, tool_call, tool_result>>

CsvInit ==
  /\ csv_data \in SeqsUpTo(CsvRows, MaxRows)
  /\ json_data = NoResponse
  /\ csv_result = NoResponse
  /\ tool_call = NoCall
  /\ tool_result = NoResponse
  /\ dirs = {}
  /\ files = [p \in AllPaths |-> NoFile]
  /\ response = NoResponse
  /\ last = [p \in Ids |-> NoSearch]
  /\ nSearches = 0
  /\ req = [w \in {} |-> 0]
  /\ events = <<>>

CsvNext ==
  \/ CsvToJson
  \/ JsonToCsv

CsvSpec == CsvInit /\ [][CsvNext]_vars

\* A header row of at least one column and data rows with one cell per
\* column.  csv.reader parses a blank line, which is how a one-column row
\* with an empty cell may be written, into a row of no cells.
Rectangular(rows) ==
  /\ Len(rows) >= 1
  /\ Len(rows[1]) >= 1
  /\ \A r \in 2..Len(rows) :
       \/ Len(rows[r]) = Len(rows[1])
       \/ Len(rows[1]) = 1 /\ rows[r] = <<>>

CellOf(row, c) == IF c <= Len(row) THEN row[c] ELSE ""

\* The data rows of a table, each read as its (column name, value) pairs.
RowSet(rows) ==
  {{<<rows[1][c], CellOf(rows[r], c)>> : c \in 1..Len(rows[1])} :
     r \in 2..Len(rows)}

\* csv_result is json_to_csv(csv_to_json(csv_data, has_header=true))
RoundTripDone ==
  /\ csv_result.op = "json_to_csv"
  /\ csv_result.json = json_data
  /\ json_data.has_header

\* C10 as stated: for every rectangular table with a header row and any
\* number of data rows, the round trip gives a CSV with the same row set and
\* never an error string.
C10_CsvRoundTrip ==
  (RoundTripDone /\ Rectangular(csv_data))
    => /\ csv_result.out.kind = "csv"
       /\ RowSet(csv_result.out.rows) = RowSet(csv_data)

\* C10 as amended: the same for tables with at least one data row and
\* pairwise distinct column names.
C10_CsvRoundTripWithRows ==
  (/\ RoundTripDone
   /\ Rectangular(csv_data)
   /\ Len(csv_data) >= 2
   /\ Injective(csv_data[1]))
    => /\ csv_result.out.kind = "csv"
       /\ RowSet(csv_result.out.rows) = RowSet(csv_data)

\* A round trip of two data rows under the header k,h, which comes back
\* with its columns in the order h,k.
C10_Witness ==
  /\ RoundTripDone
  /\ Rectangular(csv_data)
  /\ Len(csv_data) = 3
  /\ csv_data[1] = <<"k", "h">>
  /\ csv_data[2] # csv_data[3]
  /\ csv_result.out.kind = "csv"
  /\ csv_result.out.rows[1] = <<"h", "k">>

----------------------------------------------------------------------------
(* The Data Tools server's string and number tools                         *)
(* (src/03_data_server/server.py).  A text is a sequence of one-character  *)
(* strings.                                                                *)

MaxLen == 3

Digits == {"0", "1", "2", "3", "4", "5", "6", "7", "8", "9"}

UpperLetters ==
  <<"A", "B", "C", "D", "E", "F", "G", "H", "I", "J", "K", "L", "M",
    "N", "O", "P", "Q", "R", "S", "T", "U", "V", "W", "X", "Y", "Z">>

LowerLetters ==
  <<"a", "b", "c", "d", "e", "f", "g", "h", "i", "j", "k", "l", "m",
    "n", "o", "p", "q", "r", "s", "t", "u", "v", "w", "x", "y", "z">>

Letters == Range(UpperLetters) \cup Range(LowerLetters)

WhiteSpace == {" ", "\t"}

Slice(s, a, b) == [i \in 1..(b - a + 1) |-> s[a + i - 1]]

\* str.lower
StrLower(s) ==
  [i \in 1..Len(s) |->
     IF s[i] \in Range(UpperLetters)
     THEN LowerLetters[CHOOSE k \in 1..26 : UpperLetters[k] = s[i]]
     ELSE s[i]]

\* str.strip
Strip(s) ==
  LET inside == {i \in 1..Len(s) : s[i] \notin WhiteSpace}
  IN IF inside = {} THEN <<>>
     ELSE Slice(s, CHOOSE i \in inside : \A j \in inside : i <= j,
                   CHOOSE i \in inside : \A j \in inside : j <= i)

\* Digits with single underscores between them, as int() and float() read them.
DigitRun(t) ==
  /\ Len(t) > 0
  /\ \A i \in 1..Len(t) : t[i] \in Digits \cup {"_"}
  /\ t[1] \in Digits /\ t[Len(t)] \in Digits
  /\ \A i \in 1..(Len(t) - 1) : ~(t[i] = "_" /\ t[i + 1] = "_")

Unsigned(t) == IF Len(t) > 0 /\ t[1] \in {"+", "-"} THEN Tail(t) ELSE t

\* int(value) does not raise ValueError.
ParsesAsInt(v) == DigitRun(Unsigned(v))

Mantissa(t) ==
  \/ DigitRun(t)
  \/ \E d \in 1..Len(t) :
       /\ t[d] = "."
       /\ d > 1 \/ d < Len(t)
       /\ d > 1 => DigitRun(Slice(t, 1, d - 1))
       /\ d < Len(t) => DigitRun(Slice(t, d + 1, Len(t)))

Exponent(t) ==
  \/ t = <<>>
  \/ /\ t[1] \in {"e", "E"}
     /\ DigitRun(Unsigned(Tail(t)))

\* float(value) does not raise ValueError.
ParsesAsFloat(v) ==
  LET t == Unsigned(v)
  IN \/ StrLower(t) \in {<<"i", "n", "f">>, <<"n", "a", "n">>,
                        <<"i", "n", "f", "i", "n", "i", "t", "y">>}
     \/ \E k \in 0..Len(t) :
          /\ Mantissa(Slice(t, 1, k))
          /\ Exponent(Slice(t, k + 1, Len(t)))

BooleanLiterals ==
  { <<"t", "r", "u", "e">>, <<"f", "a", "l", "s", "e">>, <<"y", "e", "s">>,
    <<"n", "o">>, <<"0">>, <<"1">> }

AllIn(t, S) == \A i \in 1..Len(t) : t[i] \in S

\* ^[a-zA-Z0-9._%+-]+@[a-zA-Z0-9.-]+\.[a-zA-Z]{2,}$
MatchesEmail(v) ==
  \E a, d \in 1..Len(v) :
    /\ v[a] = "@" /\ v[d] = "."
    /\ 1 < a /\ a + 1 < d /\ d + 2 <= Len(v)
    /\ AllIn(Slice(v, 1, a - 1), Letters \cup Digits \cup {".", "_", "%", "+", "-"})
    /\ AllIn(Slice(v, a + 1, d - 1), Letters \cup Digits \cup {".", "-"})
    /\ AllIn(Slice(v, d + 1, Len(v)), Letters)

\* ^https?://[^\s]+$
MatchesUrl(v) ==
  \E k \in {7, 8} :
    /\ Len(v) > k
    /\ Slice(v, 1, k) \in {<<"h", "t", "t", "p", ":", "/", "/">>,
                           <<"h", "t", "t", "p", "s", ":", "/", "/">>}
    /\ AllIn(Slice(v, k + 1, Len(v)), {c \in Range(v) : c \notin WhiteSpace})

\* re.match of a pattern of digit groups and separators: a prefix match.
MatchesDigits(v, groups, sep) ==
  LET n1 == groups[1]
      n2 == groups[2]
      n3 == groups[3]
  IN /\ Len(v) >= n1 + n2 + n3 + 2
     /\ AllIn(Slice(v, 1, n1), Digits)
     /\ v[n1 + 1] = sep
     /\ AllIn(Slice(v, n1 + 2, n1 + n2 + 1), Digits)
     /\ v[n1 + n2 + 2] = sep
     /\ AllIn(Slice(v, n1 + n2 + 3, n1 + n2 + n3 + 2), Digits)

MatchesDate(v) ==
  \/ MatchesDigits(v, <<4, 2, 2>>, "-")
  \/ MatchesDigits(v, <<2, 2, 4>>, "/")
  \/ MatchesDigits(v, <<2, 2, 4>>, "-")

TypeResult(type, confidence, value) ==
  [op |-> "detect_data_type", type |-> type, confidence |-> confidence,
   value |-> value]

\* The try block of lines 247-254: "float", "integer", or "ValueError" when
\* float(value) or int(value) raises.
NumberType(value) ==
  IF ~ParsesAsFloat(value) THEN "ValueError"
  ELSE IF "." \in Range(value) THEN "float"
  ELSE IF ParsesAsInt(value) THEN "integer"
  ELSE "ValueError"

DetectDataType(text) ==
  LET value == Strip(text)
  IN IF value = <<>> THEN TypeResult("empty", "high", value)
     ELSE IF StrLower(value) \in BooleanLiterals
     THEN TypeResult("boolean", "medium", value)
     ELSE IF NumberType(value) # "ValueError"
     THEN TypeResult(NumberType(value), "high", value)
     ELSE IF MatchesEmail(value) THEN TypeResult("email", "high", value)
     ELSE IF MatchesUrl(value) THEN TypeResult("url", "high", value)
     ELSE IF MatchesDate(value) THEN TypeResult("date", "medium", value)
     ELSE TypeResult("string", "high", value)

DetectChars == {"1", ".", "e", "-", " "}

DetectTexts ==
  SeqsUpTo(DetectChars, MaxLen)
    \cup { <<"4", "2">>, <<"4", "2", ".", "5">>,
           <<"a", "@", "b", ".", "c", "o", "m">>, <<"T", "r", "u", "e">>,
           <<"h", "t", "t", "p", ":", "/", "/", "x">>,
           <<"2", "0", "2", "4", "-", "0", "1", "-", "0", "2", "x">>,
           <<"0", "1", "/", "0", "2", "/", "2", "0", "2", "4">>,
           <<"n", "a", "n">>, <<"1", "_", "0">>, <<"a", "b">> }

DetectCalls == {[tool |-> "detect_data_type", value |-> v] : v \in DetectTexts}

DetectDataTypeCall ==
  /\ tool_call.tool = "detect_data_type"
  /\ tool_result = NoResponse
  /\ tool_result' = DetectDataType(tool_call.value)
  /\ UNCHANGED <<tool_call, dirs, files, response, last, nSearches, req,
                 events, csv_data, json_data, csv_result>>

\* C11: detect_data_type classifies every input by the first matching rule
\* of empty, boolean-like literal, numeric, email, URL, date, string; a value
\* that is not a boolean-like literal and parses as a number is "integer"
\* when it has no decimal point and "float" otherwise, never a later class.
C11_FirstMatchingRule ==
  tool_result.op = "detect_data_type" =>
    LET value == Strip(tool_call.value)
    IN tool_result.type =
         IF value = <<>> THEN "empty"
         ELSE IF StrLower(value) \in BooleanLiterals THEN "boolean"
         ELSE IF ParsesAsFloat(value)
         THEN (IF "." \in Range(value) THEN "float" ELSE "integer")
         ELSE IF MatchesEmail(value) THEN "email"
         ELSE IF MatchesUrl(value) THEN "url"
         ELSE IF MatchesDate(value) THEN "date"
         ELSE "string"

\* The examples of C11: "42", "42.5", "a@b.com" and "".
C11_Examples ==
  tool_result.op = "detect_data_type" =>
    /\ tool_call.value = <<"4", "2">> =>
         tool_result.type = "integer" /\ tool_result.confidence = "high"
    /\ tool_call.value = <<"4", "2", ".", "5">> => tool_result.type = "float"
    /\ tool_call.value = <<"a", "@", "b", ".", "c", "o", "m">> =>
         tool_result.type = "email"
    /\ tool_call.value = <<>> => tool_result.type = "empty"

----------------------------------------------------------------------------
(* calculate_statistics *)

MaxNums == 4

NumValues == -1..4

\* a / b of Python on integers: the exact quotient, kept as a fraction.
\* The median is a fraction in both branches (denominator 1 for an element).
Div(a, b) == [num |-> a, den |-> b]

FracLeq(x, y) == x.num * y.den <= y.num * x.den

FracEq(x, y) == x.num * y.den = y.num * x.den

RECURSIVE Sum(_)
Sum(numbers) ==
  IF numbers = <<>> THEN 0 ELSE Head(numbers) + Sum(Tail(numbers))

MinOf(numbers) == CHOOSE x \in Range(numbers) : \A y \in Range(numbers) : x <= y

MaxOf(numbers) == CHOOSE x \in Range(numbers) : \A y \in Range(numbers) : y <= x

\* sorted(numbers), by insertion.
RECURSIVE Insert(_, _)
Insert(x, sorted) ==
  IF sorted = <<>> THEN <<x>>
  ELSE IF x < Head(sorted) THEN <<x>> \o sorted
  ELSE <<Head(sorted)>> \o Insert(x, Tail(sorted))

RECURSIVE SortedNumbers(_)
SortedNumbers(numbers) ==
  IF numbers = <<>> THEN <<>>
  ELSE Insert(numbers[Len(numbers)],
              SortedNumbers(SubSeq(numbers, 1, Len(numbers) - 1)))

\* Mutant: the median is taken from the list as given.
MedianUnsorted(numbers) ==
  LET n == Len(numbers)
  IN IF n % 2 = 0
     THEN Div(numbers[n \div 2] + numbers[n \div 2 + 1], 2)
     ELSE Div(numbers[n \div 2 + 1], 1)

\* Lines 351-355; sorted_numbers[k] of the code is sorted_numbers[k + 1] here.
Median(numbers) ==
  LET sorted_numbers == SortedNumbers(numbers)
      n == Len(numbers)
  IN IF n % 2 = 0
     THEN Div(sorted_numbers[n \div 2] + sorted_numbers[n \div 2 + 1], 2)
     ELSE Div(sorted_numbers[n \div 2 + 1], 1)

CalculateStatistics(numbers) ==
  IF numbers = <<>>
  THEN [op |-> "calculate_statistics", error |-> "Empty list provided"]
  ELSE [op |-> "calculate_statistics",
        count |-> Len(numbers),
        sum |-> Sum(numbers),
        mean |-> Div(Sum(numbers), Len(numbers)),
        min |-> MinOf(numbers),
        max |-> MaxOf(numbers),
        range |-> MaxOf(numbers) - MinOf(numbers),
        median |-> Median(numbers)]

StatisticsCalls ==
  {[tool |-> "calculate_statistics", numbers |-> n] :
     n \in SeqsUpTo(NumValues, MaxNums)}

CalculateStatisticsCall ==
  /\ tool_call.tool = "calculate_statistics"
  /\ tool_result = NoResponse
  /\ tool_result' = CalculateStatistics(tool_call.numbers)
  /\ UNCHANGED <<tool_call, dirs, files, response, last, nSearches, req,
                 events, csv_data, json_data, csv_result>>

\* The k-th smallest element of a non-empty list, by counting.
KthSmallest(numbers, k) ==
  CHOOSE x \in Range(numbers) :
    /\ Cardinality({i \in 1..Len(numbers) : numbers[i] < x}) < k
    /\ k <= Cardinality({i \in 1..Len(numbers) : numbers[i] <= x})

\* C12: for a non-empty list of integers calculate_statistics returns
\* count = length, sum, min, max, range = max - min and the median (middle
\* element of the sorted list for odd length, average of the two middle
\* elements for even length), with min <= median <= max; for the empty list
\* it returns an error payload.
C12_Statistics ==
  tool_result.op = "calculate_statistics" =>
    LET numbers == tool_call.numbers
        n == Len(numbers)
        r == tool_result
    IN IF n = 0 THEN DOMAIN r = {"op", "error"}
       ELSE /\ "error" \notin DOMAIN r
            /\ r.count = n
            /\ r.sum = Sum(numbers)
            /\ \A i \in 1..n : r.min <= numbers[i] /\ numbers[i] <= r.max
            /\ r.min \in Range(numbers) /\ r.max \in Range(numbers)
            /\ r.range = r.max - r.min
            /\ FracEq(r.mean, Div(Sum(numbers), n))
            /\ IF n % 2 = 1
               THEN r.median = Div(KthSmallest(numbers, (n + 1) \div 2), 1)
               ELSE FracEq(r.median,
                           Div(KthSmallest(numbers, n \div 2)
                                 + KthSmallest(numbers, n \div 2 + 1), 2))
            /\ FracLeq(Div(r.min, 1), r.median)
            /\ FracLeq(r.median, Div(r.max, 1))

\* calculate_statistics([1,2,3,4]) has answered mean 2.5, median 2.5, min 1,
\* max 4, range 3, count 4.
C12_Witness ==
  /\ tool_result.op = "calculate_statistics"
  /\ tool_call.numbers = <<1, 2, 3, 4>>
  /\ tool_result.mean = Div(10, 4) /\ tool_result.median = Div(5, 2)
  /\ tool_result.min = 1 /\ tool_result.max = 4
  /\ tool_result.range = 3 /\ tool_result.count = 4

----------------------------------------------------------------------------
(* find_duplicates *)

MaxItems == 6

ItemValues == {"a", "b", "c"}

\* Mutant: a value is counted once, however often it occurs.
CounterOfSet(items) == [item \in Range(items) |-> 1]

\* collections.Counter(items): one pass, a count per distinct value.
RECURSIVE Counter(_)
Counter(items) ==
  IF items = <<>> THEN [item \in {} |-> 0]
  ELSE LET counts == Counter(SubSeq(items, 1, Len(items) - 1))
           item == items[Len(items)]
       IN [k \in DOMAIN counts \cup {item} |->
             IF k = item
             THEN (IF item \in DOMAIN counts THEN counts[item] + 1 ELSE 1)
             ELSE counts[k]]

FindDuplicates(items) ==
  LET counts == Counter(items)
      duplicates == [item \in {k \in DOMAIN counts : counts[k] > 1} |->
                       counts[item]]
  IN [op |-> "find_duplicates",
      total_items |-> Len(items),
      unique_items |-> Cardinality(DOMAIN counts),
      duplicate_count |-> Cardinality(DOMAIN duplicates),
      duplicates |-> duplicates,
      has_duplicates |-> Cardinality(DOMAIN duplicates) > 0]

DuplicatesCalls ==
  {[tool |-> "find_duplicates", items |-> i] :
     i \in SeqsUpTo(ItemValues, MaxItems)}

FindDuplicatesCall ==
  /\ tool_call.tool = "find_duplicates"
  /\ tool_result = NoResponse
  /\ tool_result' = FindDuplicates(tool_call.items)
  /\ UNCHANGED <<tool_call, dirs, files, response, last, nSearches, req,
                 events, csv_data, json_data, csv_result>>

Occurrences(items, v) == Cardinality({i \in 1..Len(items) : items[i] = v})

\* C13: find_duplicates returns total_items = the list's length,
\* unique_items = the number of distinct values, duplicates = exactly the
\* mapping from each value occurring more than once to its number of
\* occurrences, and has_duplicates true iff that mapping is non-empty.
C13_Duplicates ==
  tool_result.op = "find_duplicates" =>
    LET items == tool_call.items
        r == tool_result
    IN /\ r.total_items = Len(items)
       /\ r.unique_items = Cardinality(Range(items))
       /\ DOMAIN r.duplicates = {v \in Range(items) : Occurrences(items, v) > 1}
       /\ \A v \in DOMAIN r.duplicates : r.duplicates[v] = Occurrences(items, v)
       /\ r.has_duplicates <=> DOMAIN r.duplicates # {}

\* find_duplicates(['a','b','a','c','b','a']) has answered duplicates
\* {a: 3, b: 2}, unique_items 3, total_items 6.
C13_Witness ==
  /\ tool_result.op = "find_duplicates"
  /\ tool_call.items = <<"a", "b", "a", "c", "b", "a">>
  /\ tool_result.duplicates = [v \in {"a", "b"} |-> IF v = "a" THEN 3 ELSE 2]
  /\ tool_result.unique_items = 3
  /\ tool_result.total_items = 6
  /\ tool_result.has_duplicates

----------------------------------------------------------------------------
(* clean_string *)

\* \w of the patterns: letters, digits and the underscore.
WordChars == Letters \cup Digits \cup {"_"}

\* re.sub(<one character of a class>, '', s): the other characters, in order.
RECURSIVE Without(_, _)
Without(s, class) ==
  IF s = <<>> THEN <<>>
  ELSE IF Head(s) \in class THEN Without(Tail(s), class)
  ELSE <<Head(s)>> \o Without(Tail(s), class)

\* re.sub(r'[^\w\s]', '', s)
StripPunctuation(s) ==
  Without(s, {c \in Range(s) : c \notin WordChars \cup WhiteSpace})

\* re.sub(r'\d+', '', s)
StripDigits(s) == Without(s, Digits)

\* re.sub(r'\s+', ' ', s): every run of whitespace becomes one space.
RECURSIVE CollapseWhitespace(_)
CollapseWhitespace(s) ==
  IF s = <<>> THEN <<>>
  ELSE IF Head(s) \in WhiteSpace
  THEN (IF Len(s) > 1 /\ s[2] \in WhiteSpace
        THEN CollapseWhitespace(Tail(s))
        ELSE <<" ">> \o CollapseWhitespace(Tail(s)))
  ELSE <<Head(s)>> \o CollapseWhitespace(Tail(s))

CleanString(text, lowercase, remove_punctuation, remove_numbers, trim) ==
  LET r1 == IF trim THEN Strip(text) ELSE text
      r2 == IF lowercase THEN StrLower(r1) ELSE r1
      r3 == IF remove_punctuation THEN StripPunctuation(r2) ELSE r2
      r4 == IF remove_numbers THEN StripDigits(r3) ELSE r3
  IN Strip(CollapseWhitespace(r4))

CleanChars == {" ", "\t", "A", "1", "!"}

CleanCalls ==
  {[tool |-> "clean_string", text |-> t, lowercase |-> l,
    remove_punctuation |-> p, remove_numbers |-> n, trim |-> tr] :
     t \in SeqsUpTo(CleanChars, MaxLen), l \in BOOLEAN, p \in BOOLEAN,
     n \in BOOLEAN, tr \in BOOLEAN}

CleanStringCall ==
  /\ tool_call.tool = "clean_string"
  /\ tool_result = NoResponse
  /\ tool_result' = [op |-> "clean_string",
                     value |-> CleanString(tool_call.text, tool_call.lowercase,
                                           tool_call.remove_punctuation,
                                           tool_call.remove_numbers,
                                           tool_call.trim)]
  /\ UNCHANGED <<tool_call, dirs, files, response, last, nSearches, req,
                 events, csv_data, json_data, csv_result>>

\* C16: clean_string's output is the composition of exactly the enabled
\* steps in the order trim, lowercase, strip punctuation, strip digits,
\* collapse whitespace, trim again; a disabled flag's step has no effect, so
\* trim = false leaves leading and trailing whitespace in place.
C16_EnabledStepsOnly ==
  tool_result.op = "clean_string" =>
    LET c == tool_call
        s1 == IF c.trim THEN Strip(c.text) ELSE c.text
        s2 == IF c.lowercase THEN StrLower(s1) ELSE s1
        s3 == IF c.remove_punctuation THEN StripPunctuation(s2) ELSE s2
        s4 == IF c.remove_numbers THEN StripDigits(s3) ELSE s3
        s5 == CollapseWhitespace(s4)
    IN tool_result.value = IF c.trim THEN Strip(s5) ELSE s5

----------------------------------------------------------------------------
(* The data tools as one specification: a call is chosen, then answered.   *)

DataCalls ==
  DetectCalls \cup StatisticsCalls \cup DuplicatesCalls \cup CleanCalls

DataInit ==
  /\ tool_call \in DataCalls
  /\ tool_result = NoResponse
  /\ dirs = {}
  /\ files = [p \in AllPaths |-> NoFile]
  /\ response = NoResponse
  /\ last = [p \in Ids |-> NoSearch]
  /\ nSearches = 0
  /\ req = [w \in {} |-> 0]
  /\ events = <<>>
  /\ csv_data = <<>>
  /\ json_data = NoResponse
  /\ csv_result = NoResponse

DataNext ==
  \/ DetectDataTypeCall
  \/ CalculateStatisticsCall
  \/ FindDuplicatesCall
  \/ CleanStringCall

DataSpec == DataInit /\ [][DataNext]_vars

----------------------------------------------------------------------------
(* The Web Tools server (src/04_web_server/server.py): check_multiple_urls *)

MaxUrls == 52

UrlCap == 50

UrlNames == <<"u1", "u2", "u3">>

\* What a HEAD request of a URL does: answer with a status code, or raise.
\* Status codes are kept as their decimal text.
StatusCodes == {"200", "404"}

Outcomes == StatusCodes \cup {"Timeout"}

Raises(outcome) == outcome \notin StatusCodes

\* urls[:50]
FirstUrls(urls) == SubSeq(urls, 1, Min(Len(urls), UrlCap))

\* Mutant: the first request that raises ends the loop.
CheckUrlsAborting(urls, net) ==
  LET n == Len(FirstUrls(urls))
      stop == IF \E i \in 1..n : Raises(net[urls[i]])
              THEN (CHOOSE i \in 1..n :
                      /\ Raises(net[urls[i]])
                      /\ \A j \in 1..(i - 1) : ~Raises(net[urls[j]])) - 1
              ELSE n
  IN [results |-> [i \in 1..stop |->
                     [url |-> urls[i], accessible |-> TRUE,
                      status_code |-> net[urls[i]]]],
      requested |-> SubSeq(urls, 1, Min(stop + 1, n))]

\* The loop of lines 368-385 over urls[:50]; `requested` is the history of
\* the HEAD requests it made.
RECURSIVE CheckUrls(_, _)
CheckUrls(urls, net) ==
  IF FirstUrls(urls) = <<>> THEN [results |-> <<>>, requested |-> <<>>]
  ELSE LET todo == FirstUrls(urls)
           before == CheckUrls(SubSeq(todo, 1, Len(todo) - 1), net)
           url == todo[Len(todo)]
           entry == IF Raises(net[url])
                    THEN [url |-> url, accessible |-> FALSE,
                          status_code |-> "None"]
                    ELSE [url |-> url, accessible |-> TRUE,
                          status_code |-> net[url]]
       IN [results |-> Append(before.results, entry),
           requested |-> Append(before.requested, url)]

\* A list of n URLs that cycles through UrlNames from a starting name.
UrlCycle(n, shift) == [i \in 1..n |-> UrlNames[((i + shift) % 3) + 1]]

UrlLists ==
  SeqsUpTo(Range(UrlNames), 3)
    \cup {UrlCycle(n, shift) : n \in 0..MaxUrls, shift \in 0..2}

CheckUrlsCalls ==
  {[tool |-> "check_multiple_urls", urls |-> u, net |-> net] :
     u \in UrlLists, net \in [Range(UrlNames) -> Outcomes]}

CheckMultipleUrls ==
  /\ tool_call.tool = "check_multiple_urls"
  /\ tool_result = NoResponse
  /\ tool_result' = [op |-> "check_multiple_urls"]
                      @@ CheckUrls(tool_call.urls, tool_call.net)
  /\ UNCHANGED <<tool_call, dirs, files, response, last, nSearches, req,
                 events, csv_data, json_data, csv_result>>

\* C14: check_multiple_urls returns a list of length min(len(urls), 50)
\* whose i-th entry is for the i-th URL; a URL whose request raises has an
\* entry with accessible = false and the URLs after it are still checked;
\* URLs past the 50th are never requested.
C14_CheckMultipleUrls ==
  tool_result.op = "check_multiple_urls" =>
    LET urls == tool_call.urls
        r == tool_result.results
    IN /\ Len(r) = Min(Len(urls), 50)
       /\ \A i \in 1..Len(r) :
            /\ r[i].url = urls[i]
            /\ Raises(tool_call.net[urls[i]]) => ~r[i].accessible
            /\ ~Raises(tool_call.net[urls[i]]) =>
                 r[i].accessible /\ r[i].status_code = tool_call.net[urls[i]]
       /\ tool_result.requested = SubSeq(urls, 1, Min(Len(urls), 50))

\* A list of more than 50 URLs has been checked, one of the first 50 raised
\* and a later one of them was answered.
C14_Witness ==
  /\ tool_result.op = "check_multiple_urls"
  /\ Len(tool_call.urls) > 50
  /\ \E i, j \in 1..Len(tool_result.results) :
       /\ i < j
       /\ ~tool_result.results[i].accessible
       /\ tool_result.results[j].accessible

----------------------------------------------------------------------------
(* extract_links.  A URL is kept in the parts urlparse splits it into: the  *)
(* scheme, the network location, and the path as its segments.              *)

MaxAnchors == 3

Url(scheme, netloc, rooted, segs) ==
  [scheme |-> scheme, netloc |-> netloc, rooted |-> rooted, segs |-> segs]

\* The page URLs: http://h/d/p and https://o/p
PageUrls == { Url("http", "h", TRUE, <<"d", "p">>),
              Url("https", "o", TRUE, <<"p">>) }

\* The href values: "", "a", "/a", "/d/a", "//o/a", "http://h/a",
\* "http://o/a", "https://h/a" and "mailto:x".
Hrefs ==
  { Url("", "", FALSE, <<>>), Url("", "", FALSE, <<"a">>),
    Url("", "", TRUE, <<"a">>), Url("", "", TRUE, <<"d", "a">>),
    Url("", "o", TRUE, <<"a">>),
    Url("http", "h", TRUE, <<"a">>), Url("http", "o", TRUE, <<"a">>),
    Url("https", "h", TRUE, <<"a">>), Url("mailto", "", FALSE, <<"x">>) }

\* urllib.parse.uses_relative, as far as the model's schemes go.
UsesRelative == {"", "http", "https"}

\* urljoin(base, url)
UrlJoin(base, url) ==
  IF url = Url("", "", FALSE, <<>>) THEN base
  ELSE LET scheme == IF url.scheme = "" THEN base.scheme ELSE url.scheme
       IN IF scheme # base.scheme \/ scheme \notin UsesRelative THEN url
          ELSE IF url.netloc # "" THEN Url(scheme, url.netloc, url.rooted, url.segs)
          ELSE IF url.rooted THEN Url(scheme, base.netloc, TRUE, url.segs)
          ELSE Url(scheme, base.netloc, TRUE,
                   SubSeq(base.segs, 1, Len(base.segs) - 1) \o url.segs)

\* The loop of lines 127-137: the resolved links, in the anchors' order.
RECURSIVE Classify(_, _, _)
Classify(url, hrefs, internal) ==
  IF hrefs = <<>> THEN <<>>
  ELSE LET absolute_url == UrlJoin(url, Head(hrefs))
           is_internal == \/ absolute_url.netloc = url.netloc
                          \/ absolute_url.netloc = ""
       IN (IF is_internal = internal THEN <<absolute_url>> ELSE <<>>)
            \o Classify(url, Tail(hrefs), internal)

LinkCalls ==
  {[tool |-> "extract_links", url |-> u, hrefs |-> h, filter_external |-> f,
    page |-> "fetched"] :
     u \in PageUrls, h \in SeqsUpTo(Hrefs, MaxAnchors), f \in BOOLEAN}
  \cup
  {[tool |-> "extract_links", url |-> u, hrefs |-> <<>>, filter_external |-> f,
    page |-> e] :
     u \in PageUrls, f \in BOOLEAN, e \in {"no_BeautifulSoup", "get_raises"}}

\* list(set(links)) gives the distinct links in an order of the set's choosing.
ExtractLinks ==
  /\ tool_call.tool = "extract_links"
  /\ tool_result = NoResponse
  /\ IF tool_call.page # "fetched"
     THEN tool_result' = [op |-> "extract_links", error |-> tool_call.page]
     ELSE LET internal_links == Classify(tool_call.url, tool_call.hrefs, TRUE)
              external_links == Classify(tool_call.url, tool_call.hrefs, FALSE)
          IN \E int \in Orders(Range(internal_links)),
                ext \in Orders(Range(external_links)) :
               tool_result' =
                 [op |-> "extract_links",
                  url |-> tool_call.url,
                  total_links |-> Len(internal_links) + Len(external_links),
                  internal_links |-> int,
                  external_links |-> ext]
                 @@ (IF tool_call.filter_external
                     THEN [k \in {"links"} |-> int]
                     ELSE [k \in {} |-> <<>>])
  /\ UNCHANGED <<tool_call, dirs, files, response, last, nSearches, req,
                 events, csv_data, json_data, csv_result>>

Returned == tool_result.op = "extract_links" /\ "error" \notin DOMAIN tool_result

\* C17: extract_links puts each resolved href in internal_links exactly
\* when its network location is the page's or empty, otherwise in
\* external_links; the two lists are disjoint and duplicate-free,
\* total_links is the number of links in the two lists together, and with
\* filter_external = true the links view holds the internal links only.
C17_ExtractLinks ==
  Returned =>
    LET r == tool_result
        page == tool_call.url
        resolved == {UrlJoin(page, tool_call.hrefs[i]) :
                       i \in 1..Len(tool_call.hrefs)}
    IN /\ Range(r.internal_links) =
            {u \in resolved : u.netloc = page.netloc \/ u.netloc = ""}
       /\ Range(r.external_links) =
            {u \in resolved : ~(u.netloc = page.netloc \/ u.netloc = "")}
       /\ Injective(r.internal_links) /\ Injective(r.external_links)
       /\ Range(r.internal_links) \cap Range(r.external_links) = {}
       /\ r.total_links = Len(r.internal_links) + Len(r.external_links)
       /\ tool_call.filter_external => r.links = r.internal_links

WebCalls == CheckUrlsCalls \cup LinkCalls

WebInit ==
  /\ tool_call \in WebCalls
  /\ tool_result = NoResponse
  /\ dirs = {}
  /\ files = [p \in AllPaths |-> NoFile]
  /\ response = NoResponse
  /\ last = [p \in Ids |-> NoSearch]
  /\ nSearches = 0
  /\ req = [w \in {} |-> 0]
  /\ events = <<>>
  /\ csv_data = <<>>
  /\ json_data = NoResponse
  /\ csv_result = NoResponse

WebNext ==
  \/ CheckMultipleUrls
  \/ ExtractLinks

WebSpec == WebInit /\ [][WebNext]_vars

----------------------------------------------------------------------------
(* The Document Tools server (src/02_document_server/server.py):           *)
(* count_pdf_pages                                                         *)

MaxPages == 5

HttpStatuses == {200, 206, 300, 404, 500}

\* What the URL's content is to PyPDF2: a document of some pages, a file
\* whose pages cannot be read (PdfReader or reader.pages raises), or no PDF.
Contents ==
  {[kind |-> "pdf", pages |-> n] : n \in 0..MaxPages}
    \cup {[kind |-> "unreadable_pdf"], [kind |-> "not_pdf"]}

\* What requests.get does: raise, or answer with a status and a content.
Downloads ==
  {[kind |-> "raises", exc |-> e] : e \in {"ConnectionError", "Timeout"}}
    \cup {[kind |-> "response", status_code |-> c, content |-> b] :
            c \in HttpStatuses, b \in Contents}

\* Mutant: no status raises.
RaiseForStatusNever(status_code) == FALSE

\* response.raise_for_status() raises HTTPError for a 4xx or 5xx status.
RaiseForStatus(status_code) == 400 <= status_code /\ status_code < 600

CountPdfPages(download, PyPDF2) ==
  IF download.kind = "raises" THEN -1
  ELSE IF RaiseForStatus(download.status_code) THEN -1
  ELSE IF ~PyPDF2 THEN -1
  ELSE IF download.content.kind = "pdf" THEN download.content.pages
  ELSE -1

PdfCalls ==
  {[tool |-> "count_pdf_pages", download |-> d, PyPDF2 |-> lib] :
     d \in Downloads, lib \in BOOLEAN}

CountPdfPagesCall ==
  /\ tool_call.tool = "count_pdf_pages"
  /\ tool_result = NoResponse
  /\ tool_result' = [op |-> "count_pdf_pages",
                     value |-> CountPdfPages(tool_call.download,
                                             tool_call.PyPDF2)]
  /\ UNCHANGED <<tool_call, dirs, files, response, last, nSearches, req,
                 events, csv_data, json_data, csv_result>>

\* The download was answered and its content is a readable PDF, and the PDF
\* library is installed.
Parsed(call) ==
  /\ call.download.kind = "response"
  /\ call.download.content.kind = "pdf"
  /\ call.PyPDF2

\* C15: count_pdf_pages returns a negative value on any failure (non-2xx
\* download, network failure, unparsable PDF, missing PDF library) and a
\* non-negative value, the page count, only when download and parse succeeded.
C15_SentinelOnFailure ==
  tool_result.op = "count_pdf_pages" =>
    LET ok == /\ Parsed(tool_call)
              /\ tool_call.download.status_code \in 200..299
    IN IF ok THEN tool_result.value = tool_call.download.content.pages
       ELSE tool_result.value < 0

\* C15, amended: the failing statuses are the 4xx and 5xx ones.
C15_SentinelOnErrorStatus ==
  tool_result.op = "count_pdf_pages" =>
    LET ok == /\ Parsed(tool_call)
              /\ tool_call.download.status_code < 400
    IN IF ok THEN tool_result.value = tool_call.download.content.pages
       ELSE tool_result.value = -1

\* A download answered 404 with a readable PDF as its content has been
\* counted as -1.
C15_Witness ==
  /\ tool_result.op = "count_pdf_pages"
  /\ Parsed(tool_call)
  /\ tool_call.download.status_code = 404
  /\ tool_call.download.content.pages > 0
  /\ tool_result.value = -1

DocInit ==
  /\ tool_call \in PdfCalls
  /\ tool_result = NoResponse
  /\ dirs = {}
  /\ files = [p \in AllPaths |-> NoFile]
  /\ response = NoResponse
  /\ last = [p \in Ids |-> NoSearch]
  /\ nSearches = 0
  /\ req = [w \in {} |-> 0]
  /\ events = <<>>
  /\ csv_data = <<>>
  /\ json_data = NoResponse
  /\ csv_result = NoResponse

DocNext ==
  \/ CountPdfPagesCall

DocSpec == DocInit /\ [][DocNext]_vars

----------------------------------------------------------------------------
(* The research server again: the two scans, failed searches, and the      *)
(* files a search touches.                                                 *)

\* C18: get_paper_citation finds its record by the same scan as
\* extract_paper_info: over the same caches and directory listing it signals
\* not-found exactly when extract_paper_info does, and otherwise renders the
\* record extract_paper_info returns.
C18_SameScan ==
  response.op = "get_paper_citation" =>
    \A order \in Orders(TopLevelDirs(dirs)) :
      LET cited == CitationScan(order, files, response.paper_id)
          found == ExtractScan(order, files, response.paper_id)
      IN (cited.status = "not_found") = (response.status = "not_found")
           => /\ cited.status = "not_found" <=> found.status = "not_found"
              /\ cited.status = "ok" =>
                   found.status = "ok" /\ found.record = response.record

\* C19: a search_papers request that fails because the index raises, before
\* or part-way through yielding results, leaves the content of every cache
\* file as it was: no record of the failed search is persisted.
C19_FailedSearchWritesNothing ==
  [][(SearchStep /\ response'.status = "index_error") => files' = files]_vars

\* A search of a topic whose cache file holds P1 and not P2 has failed with
\* an index error (after the index yielded any of its result lists), and
\* the file still holds P1 and not P2.
C19_Witness ==
  /\ response.op = "search_papers"
  /\ response.status = "index_error"
  /\ Cached(files, response.path, "P1")
  /\ ~Cached(files, response.path, "P2")

\* The same server when clients also use the alias topics.
SearchPapersAliased == SearchPapersOf(TopicStrings \cup AliasTopics)

AliasNext ==
  \/ SearchPapersAliased
  \/ ExtractPaperInfo

AliasSpec == Init /\ [][AliasNext]_vars

\* C20: search_papers(topic) changes only the cache file of the normalized
\* topic: the cache files of the topics with a different normalized string
\* are unchanged by the call, and topic strings with the same normalized
\* form read and write one and the same file.
C20_OnlyTheTopicsFile ==
  [][SearchStep =>
       \A t \in TopicStrings \cup AliasTopics :
         IF Normalize(t) = Normalize(response'.topic)
         THEN TopicPath(t) = response'.path
         ELSE files'[TopicPath(t)] = files[TopicPath(t)]]_vars

====
